---- MODULE Spec2Model ----
(***************************************************************************)
(* scout: target expansion (scan.rs build_target_scan_items,               *)
(* build_scan_items), the bounded scan pipeline (scan.rs spawn, scan_one)  *)
(* and its consumer loop (main.rs run_probe).                              *)
(***************************************************************************)
EXTENDS Integers, Sequences, FiniteSets, Bags

VARIABLES
    entry,        \* the function the flow entered at
    pc,           \* position of the calling flow (run_probe / spawn / recv loop)
    target,       \* run_probe: the target string, as a token sequence
    start,        \* run_probe: Option<u16> start port
    end,          \* run_probe: Option<u16> end port
    cpus,         \* num_cpus::get()
    hosts,        \* build_scan_items: the host sequence handed in
    ports,        \* build_scan_items: the port sequence handed in
    scan_items,   \* Vec<ScanItem> handed to spawn
    concurrency,  \* spawn parameter
    channel_size, \* spawn parameter
    err,          \* error returned to the caller ("" when none)
    total,        \* Scanner.total (-1 before spawn returned one)
    sem,          \* available permits of the Semaphore (-1: not created)
    chan,         \* buffered results of the mpsc channel, FIFO
    senders,      \* live Sender handles (-1: channel not created)
    next,         \* spawn's loop position in scan_items
    task,         \* task[i]: position of the task spawned for scan_items[i]
    outcome,      \* task[i]'s connect outcome ("" before the connect ended)
    open,         \* task[i]'s value of `open`
    received,     \* results the consumer got from rx.recv(), as a bag
    ping,         \* fingerprint::ttl: how the ping command ended
    ttl_guess,    \* fingerprint::ttl: the Option<String> returned
    stream,       \* run_default: the results rx.recv() yields, in order
    recv_pos,     \* run_default: how many of them the loop has taken
    open_hosts,   \* run_default: host -> open ports, as collected
    fp_results,   \* run_default: (ip, ports, fingerprint) per live host
    probes        \* every ping run and service connection opened, in order

vars == <<entry, pc, target, start, end, cpus, hosts, ports, scan_items, concurrency,
          channel_size, err, total, sem, chan, senders, next, task, outcome,
          open, received, ping, ttl_guess, stream, recv_pos, open_hosts,
          fp_results, probes>>

----------------------------------------------------------------------------
(* Bounds of the model *)

MaxItems == 3       \* longest work sequence handed directly to spawn
MaxConc == 2        \* largest concurrency handed directly to spawn
MaxProbeItems == 2  \* largest expansion run_probe goes on to scan
MaxHosts == 2       \* longest host sequence handed to build_scan_items
MaxPorts == 3       \* longest port sequence handed to build_scan_items

ChannelSizes == {1, 2}  \* channel_size values handed directly to spawn

----------------------------------------------------------------------------
(* Option / Result values *)

None == [ok |-> FALSE]
Some(v) == [ok |-> TRUE, val |-> v]

NoPort == -1       \* Option<u16>::None of the CLI's start / end

UnsupportedTarget == "Target not supported; supply IP address or CIDR"
NoItems == "No items to scan"
BadRange == "start_port must be <= end_port"

----------------------------------------------------------------------------
(* Target strings: a string is a sequence of tokens, a decimal number, a   *)
(* '.', a '/' or an alphabetic label.                                      *)

Num(n) == [t |-> "num", v |-> n]
Dot == [t |-> "dot", v |-> 0]
Slash == [t |-> "slash", v |-> 0]
Word == [t |-> "word", v |-> 0]

IsNum(tok, hi) == tok.t = "num" /\ tok.v >= 0 /\ tok.v <= hi

\* str::parse::<Ipv4Addr>: four decimal octets separated by dots.
ParseIpv4Addr(s) ==
    IF /\ Len(s) = 7
       /\ \A i \in {1, 3, 5, 7} : IsNum(s[i], 255)
       /\ \A i \in {2, 4, 6} : s[i].t = "dot"
    THEN Some(<<s[1].v, s[3].v, s[5].v, s[7].v>>)
    ELSE None

Pow2(n) == IF n <= 0 THEN 1 ELSE 2 ^ n

\* Number of host bits of a /len network that fall in octet j (1..4).
HostBitsIn(j, len) ==
    LET hb == 8 * j - len IN IF hb < 0 THEN 0 ELSE IF hb > 8 THEN 8 ELSE hb

HostPartZero(addr, len) ==
    \A j \in 1..4 : addr[j] % Pow2(HostBitsIn(j, len)) = 0

RFindSlash(s) ==
    LET at == {i \in 1..Len(s) : s[i].t = "slash"}
    IN IF at = {} THEN 0 ELSE CHOOSE i \in at : \A j \in at : j <= i

\* str::parse::<Ipv4Cidr> (cidr crate): "<addr>" is the host network
\* addr/32; "<addr>/<len>" needs len <= 32 and a zero host part.
ParseIpv4Cidr(s) ==
    LET pos == RFindSlash(s) IN
    IF pos = 0
    THEN LET a == ParseIpv4Addr(s) IN
         IF a.ok THEN Some([addr |-> a.val, len |-> 32]) ELSE None
    ELSE LET a == ParseIpv4Addr(SubSeq(s, 1, pos - 1)) IN
         IF /\ a.ok
            /\ Len(s) = pos + 1
            /\ IsNum(s[pos + 1], 32)
            /\ HostPartZero(a.val, s[pos + 1].v)
         THEN Some([addr |-> a.val, len |-> s[pos + 1].v])
         ELSE None

\* The address k places after addr (octet arithmetic with carry).
AddOffset(addr, k) ==
    LET d4 == addr[4] + k
        d3 == addr[3] + d4 \div 256
        d2 == addr[2] + d3 \div 256
        d1 == addr[1] + d2 \div 256
    IN <<d1 % 256, d2 % 256, d3 % 256, d4 % 256>>

\* Ipv4Cidr::iter().map(|ip| ip.address()): every address of the block,
\* from the first (network) address to the last (broadcast) address.
CidrIter(c) ==
    [k \in 1..Pow2(32 - c.len) |-> AddOffset(c.addr, k - 1)]

\* start..=end
RangeInclusive(lo, hi) ==
    IF lo > hi THEN <<>> ELSE [k \in 1..(hi - lo + 1) |-> lo + k - 1]

----------------------------------------------------------------------------
(* scan.rs: target expansion *)

RECURSIVE PushPorts(_, _, _, _)
\* the inner loop: for &port in &ports_vec { scan_items.push((host, port)) }
PushPorts(acc, host, ports_vec, j) ==
    IF j > Len(ports_vec) THEN acc
    ELSE PushPorts(Append(acc, <<host, ports_vec[j]>>), host, ports_vec, j + 1)

RECURSIVE PushHosts(_, _, _, _)
\* the outer loop: for host in hosts { ... }
PushHosts(acc, hs, ports_vec, i) ==
    IF i > Len(hs) THEN acc
    ELSE PushHosts(PushPorts(acc, hs[i], ports_vec, 1), hs, ports_vec, i + 1)

RECURSIVE InsertSorted(_, _)
InsertSorted(sorted, x) ==
    IF sorted = <<>> THEN <<x>>
    ELSE IF x <= Head(sorted) THEN <<x>> \o sorted
    ELSE <<Head(sorted)>> \o InsertSorted(Tail(sorted), x)

RECURSIVE SortPorts(_)
SortPorts(q) ==
    IF q = <<>> THEN <<>> ELSE InsertSorted(SortPorts(Tail(q)), Head(q))

\* Variant: the loops nested the other way round (port-major).
build_scan_items_port_major(hs, ps) ==
    [k \in 1..(Len(hs) * Len(ps)) |->
        <<hs[((k - 1) % Len(hs)) + 1], ps[((k - 1) \div Len(hs)) + 1]>>]

\* Variant: ports_vec sorted before the loops.
build_scan_items_sorted(hs, ps) == PushHosts(<<>>, hs, SortPorts(ps), 1)

build_scan_items(hs, ps) == PushHosts(<<>>, hs, ps, 1)

\* Variant: an unparsable target falls back to the unspecified address.
build_target_scan_items_fallback(tgt, s, e) ==
    LET ps == RangeInclusive(s, e)
        ip == ParseIpv4Addr(tgt)
        cidr == ParseIpv4Cidr(tgt)
    IN IF ip.ok THEN [ok |-> TRUE, items |-> build_scan_items(<<ip.val>>, ps)]
       ELSE IF cidr.ok
            THEN [ok |-> TRUE, items |-> build_scan_items(CidrIter(cidr.val), ps)]
            ELSE [ok |-> TRUE, items |-> build_scan_items(<<<<0, 0, 0, 0>>>>, ps)]

build_target_scan_items(tgt, s, e) ==
    LET ps == RangeInclusive(s, e)
        ip == ParseIpv4Addr(tgt)
        cidr == ParseIpv4Cidr(tgt)
    IN IF ip.ok THEN [ok |-> TRUE, items |-> build_scan_items(<<ip.val>>, ps)]
       ELSE IF cidr.ok
            THEN [ok |-> TRUE, items |-> build_scan_items(CidrIter(cidr.val), ps)]
            ELSE [ok |-> FALSE, err |-> UnsupportedTarget]

----------------------------------------------------------------------------
(* limits.rs *)

ConcurrencyFactor == 64
ConcurrencyCap == 4096
ChannelFactor == 4
ChannelMin == 256
ChannelMax == 16384

Min(a, b) == IF a < b THEN a ELSE b
Clamp(x, lo, hi) == IF x < lo THEN lo ELSE IF x > hi THEN hi ELSE x

\* compute_concurrency without the .min(4096)
compute_concurrency_uncapped(k) == k * ConcurrencyFactor

\* compute_channel_size with only the upper half of the clamp
compute_channel_size_no_floor(c) == Min(c * ChannelFactor, ChannelMax)

\* num_cpus::get().saturating_mul(64).min(4096); the product of the CPU counts
\* drawn here is far below usize::MAX, so saturating_mul is the product.
compute_concurrency(k) == Min(k * ConcurrencyFactor, ConcurrencyCap)
compute_channel_size(c) == Clamp(c * ChannelFactor, ChannelMin, ChannelMax)

----------------------------------------------------------------------------
(* fingerprint.rs: ttl                                                     *)
(* The ping command either cannot be run, exits with a failure status, or  *)
(* exits successfully having printed stdout.  stdout is the sequence of    *)
(* its whitespace-separated segments; a segment is a plain word or         *)
(* "ttl=<text>", where <text> is a decimal number or not a number at all.  *)

U8Max == 255
NotANumber == -1

PlainSegment == [prefix |-> "", v |-> NotANumber]
TtlSegment(v) == [prefix |-> "ttl=", v |-> v]

\* segment.strip_prefix("ttl=").and_then(|v| v.parse::<u8>().ok())
ParseTtlSegment(segment) ==
    IF segment.prefix = "ttl=" /\ segment.v >= 0 /\ segment.v <= U8Max
    THEN Some(segment.v)
    ELSE None

\* Iterator::find_map: the first segment the closure maps to Some
RECURSIVE FindMapTtl(_, _)
FindMapTtl(segments, i) ==
    IF i > Len(segments) THEN None
    ELSE IF ParseTtlSegment(segments[i]).ok THEN ParseTtlSegment(segments[i])
    ELSE FindMapTtl(segments, i + 1)

Linux == "likely Linux/macOS/iOS"
Windows == "likely Windows"
NetworkGear == "likely network gear/other"

\* u8::saturating_sub
saturating_sub(a, b) == IF a >= b THEN a - b ELSE 0

\* The returned string "{ttl} ({hint})" is kept as its parts: the ttl, and
\* the hint as <<os_guess>> or <<os_guess, hops>> ("..., {hops} hop(s) away").
FormatTtl(t, base, os_guess) ==
    LET hops == saturating_sub(base, t)
        hint == IF hops = 0 THEN <<os_guess>> ELSE <<os_guess, hops>>
    IN Some([ttl |-> t, hint |-> hint])

\* ttl with half-open match arms (1..64, 65..128)
ttl_exclusive_ranges(p) ==
    IF p.kind /= "exited" \/ ~p.success THEN None
    ELSE LET found == FindMapTtl(p.stdout, 1)
         IN IF ~found.ok THEN None
            ELSE IF found.val >= 1 /\ found.val < 64 THEN FormatTtl(found.val, 64, Linux)
            ELSE IF found.val >= 65 /\ found.val < 128 THEN FormatTtl(found.val, 128, Windows)
            ELSE FormatTtl(found.val, U8Max, NetworkGear)

ttl(p) ==
    IF p.kind /= "exited" \/ ~p.success THEN None
    ELSE LET found == FindMapTtl(p.stdout, 1)
         IN IF ~found.ok THEN None
            ELSE IF found.val >= 1 /\ found.val <= 64 THEN FormatTtl(found.val, 64, Linux)
            ELSE IF found.val >= 65 /\ found.val <= 128 THEN FormatTtl(found.val, 128, Windows)
            ELSE FormatTtl(found.val, U8Max, NetworkGear)

----------------------------------------------------------------------------
(* scan.rs: scan_one and the connect helper *)

\* How a TcpStream::connect raced against its deadline can end.
ConnectOutcomes == {"connected", "refused", "elapsed"}

\* Variant: only the deadline is looked at, timeout(..).await.ok().
connect_with_deadline_flat(o) ==
    IF o = "elapsed" THEN None ELSE Some("stream")

\* timeout(deadline, connect).await.ok()?.ok()
connect_with_deadline(o) ==
    IF o = "elapsed" THEN None             \* Err(Elapsed).ok()? returns None
    ELSE IF o = "connected" THEN Some("stream")
    ELSE None                              \* Err(io::Error).ok()

scan_one(o) == connect_with_deadline(o).ok

----------------------------------------------------------------------------
(* Inputs *)

H1 == <<10, 0, 0, 5>>
H2 == <<10, 0, 0, 6>>

\* Work items handed directly to spawn.
ItemPool == <<<<H1, 22>>, <<H2, 80>>>>

Range(q) == {q[i] : i \in DOMAIN q}

SeqsUpTo(S, n) == UNION {[1..k -> S] : k \in 0..n}

\* Work sequences of up to MaxItems items of ItemPool, repeats included; the
\* pipeline never reads an item's value, so one ordering per multiset.
WorkSeqs ==
    {[i \in DOMAIN f |-> ItemPool[f[i]]] :
        f \in {g \in SeqsUpTo(DOMAIN ItemPool, MaxItems) :
                  \A i \in DOMAIN g : \A j \in DOMAIN g : i < j => g[i] <= g[j]}}

Addr(a, b, c, d) == <<Num(a), Dot, Num(b), Dot, Num(c), Dot, Num(d)>>

Targets ==
    { Addr(10, 0, 0, 5),                              \* "10.0.0.5"
      Addr(192, 168, 1, 0) \o <<Slash, Num(30)>>,     \* "192.168.1.0/30"
      Addr(10, 0, 0, 254) \o <<Slash, Num(31)>>,      \* "10.0.0.254/31"
      Addr(10, 0, 0, 5) \o <<Slash, Num(32)>>,        \* "10.0.0.5/32"
      Addr(192, 168, 1, 1) \o <<Slash, Num(30)>>,     \* "192.168.1.1/30"
      Addr(10, 0, 0, 0) \o <<Slash, Num(33)>>,        \* "10.0.0.0/33"
      Addr(256, 0, 0, 1),                             \* "256.0.0.1"
      <<Num(10), Dot, Num(0), Dot, Num(0)>>,          \* "10.0.0"
      <<Word, Dot, Word>>,                            \* "example.com"
      <<>> }                                          \* ""

StartPorts == {NoPort, 2, 80, 1023}
EndPorts == {NoPort, 1, 2, 3, 80}

\* u16 port bounds handed directly to build_target_scan_items.
RangePorts == {78, 80, 81}

CpuCounts == {1}

DefaultStart == 1
DefaultEnd == 1024

unwrap_or(opt, dflt) == IF opt = NoPort THEN dflt ELSE opt

\* Probe invocations whose expansion stays within MaxProbeItems.
ProbeInputs ==
    {in \in Targets \X StartPorts \X EndPorts :
        LET s == unwrap_or(in[2], DefaultStart)
            e == unwrap_or(in[3], DefaultEnd)
        IN \/ s > e
           \/ /\ e - s + 1 <= MaxProbeItems
              /\ LET r == build_target_scan_items(in[1], s, e)
                 IN r.ok => Len(r.items) <= MaxProbeItems}

HostPool == {H1, H2}
PortPool == {22, 80, 443}
DISCOVERY_PORTS == <<22, 23, 53, 80, 443, 631, 8000, 8080, 8443, 139, 445>>

HostSeqs == SeqsUpTo(HostPool, MaxHosts)
PortSeqs == SeqsUpTo(PortPool, MaxPorts) \cup {DISCOVERY_PORTS}

----------------------------------------------------------------------------
(* Initial states *)

Tasks == 1..Len(scan_items)

NoPipeline ==
    /\ err = ""
    /\ total = -1
    /\ sem = -1
    /\ chan = <<>>
    /\ senders = -1
    /\ next = 0
    /\ task = <<>>
    /\ outcome = <<>>
    /\ open = <<>>
    /\ received = EmptyBag

NoPing == [kind |-> "none"]

NoFingerprinting ==
    /\ ping = NoPing
    /\ ttl_guess = None
    /\ stream = <<>>
    /\ recv_pos = 0
    /\ open_hosts = <<>>
    /\ fp_results = <<>>
    /\ probes = <<>>

\* scan::spawn called with a work sequence and a budget.
InitSpawn ==
    /\ entry = "spawn"
    /\ pc = "spawn"
    /\ scan_items \in WorkSeqs
    /\ concurrency \in 1..MaxConc
    /\ channel_size \in ChannelSizes
    /\ target = <<>> /\ start = NoPort /\ end = NoPort /\ cpus = 0
    /\ hosts = <<>> /\ ports = <<>>
    /\ NoPipeline
    /\ NoFingerprinting

\* main: Commands::Probe { target, start, end }
InitProbe ==
    /\ entry = "run_probe"
    /\ pc = "run_probe"
    /\ \E in \in ProbeInputs : target = in[1] /\ start = in[2] /\ end = in[3]
    /\ cpus \in CpuCounts
    /\ scan_items = <<>> /\ concurrency = 0 /\ channel_size = 0
    /\ hosts = <<>> /\ ports = <<>>
    /\ NoPipeline
    /\ NoFingerprinting

\* scan::build_scan_items called with a host sequence and a port sequence.
InitExpand ==
    /\ entry = "build_scan_items"
    /\ pc = "build_scan_items"
    /\ hosts \in HostSeqs
    /\ ports \in PortSeqs
    /\ target = <<>> /\ start = NoPort /\ end = NoPort /\ cpus = 0
    /\ scan_items = <<>> /\ concurrency = 0 /\ channel_size = 0
    /\ NoPipeline
    /\ NoFingerprinting

\* scan::build_target_scan_items called with a target and a port range.
InitExpandTarget ==
    /\ entry = "build_target_scan_items"
    /\ pc = "build_target_scan_items"
    /\ target \in Targets
    /\ start \in RangePorts
    /\ end \in RangePorts
    /\ cpus = 0 /\ hosts = <<>> /\ ports = <<>>
    /\ scan_items = <<>> /\ concurrency = 0 /\ channel_size = 0
    /\ NoPipeline
    /\ NoFingerprinting

Init == InitSpawn \/ InitProbe \/ InitExpand \/ InitExpandTarget

----------------------------------------------------------------------------
(* Actions *)

inputs == <<entry, target, start, end, cpus, hosts, ports>>
fingerprinting == <<ping, ttl_guess, stream, recv_pos, open_hosts, fp_results, probes>>
budget == <<concurrency, channel_size>>
pipeline == <<total, sem, chan, senders, next, task, outcome, open, received>>

\* main.rs run_probe, up to the call of scan::spawn.
RunProbe ==
    /\ pc = "run_probe"
    /\ LET s == unwrap_or(start, DefaultStart)
           e == unwrap_or(end, DefaultEnd)
           c == compute_concurrency(cpus)
           r == build_target_scan_items(target, s, e)
       IN IF s > e
          THEN /\ pc' = "exited"                 \* std::process::exit(1)
               /\ err' = BadRange
               /\ UNCHANGED <<scan_items, budget>>
          ELSE /\ concurrency' = c
               /\ channel_size' = compute_channel_size(c)
               /\ IF r.ok
                  THEN /\ scan_items' = r.items
                       /\ pc' = "spawn"
                       /\ err' = ""
                  ELSE /\ pc' = "failed"         \* the `?` returns the error
                       /\ err' = r.err
                       /\ UNCHANGED scan_items
    /\ UNCHANGED <<inputs, fingerprinting, pipeline>>

\* Variant: an empty expansion is turned into the "No items to scan" error.
ExpandTargetChecked ==
    /\ pc = "build_target_scan_items"
    /\ LET r == build_target_scan_items(target, start, end)
       IN IF r.ok /\ r.items /= <<>>
          THEN /\ scan_items' = r.items
               /\ pc' = "built"
               /\ err' = ""
          ELSE /\ pc' = "failed"
               /\ err' = IF r.ok THEN NoItems ELSE r.err
               /\ UNCHANGED scan_items
    /\ UNCHANGED <<inputs, fingerprinting, budget, pipeline>>

\* scan.rs build_scan_items, called on its own.
Expand ==
    /\ pc = "build_scan_items"
    /\ scan_items' = build_scan_items(hosts, ports)
    /\ pc' = "built"
    /\ UNCHANGED <<inputs, fingerprinting, budget, err, pipeline>>

\* scan.rs build_target_scan_items, called on its own.
ExpandTarget ==
    /\ pc = "build_target_scan_items"
    /\ LET r == build_target_scan_items(target, start, end)
       IN IF r.ok
          THEN /\ scan_items' = r.items
               /\ pc' = "built"
               /\ err' = ""
          ELSE /\ pc' = "failed"
               /\ err' = r.err
               /\ UNCHANGED scan_items
    /\ UNCHANGED <<inputs, fingerprinting, budget, pipeline>>

\* Variant: spawn without the empty check.
SpawnEnterNoCheck ==
    /\ pc = "spawn"
    /\ pc' = "spawning"
    /\ total' = Len(scan_items)
    /\ sem' = concurrency
    /\ chan' = <<>>
    /\ senders' = 1
    /\ next' = 1
    /\ task' = [i \in Tasks |-> "unspawned"]
    /\ outcome' = [i \in Tasks |-> ""]
    /\ open' = [i \in Tasks |-> FALSE]
    /\ UNCHANGED <<err, received, inputs, fingerprinting, scan_items, budget>>

\* scan.rs spawn, lines 59-65: the empty check, then the limiter and channel.
SpawnEnter ==
    /\ pc = "spawn"
    /\ IF Len(scan_items) = 0
       THEN /\ pc' = "failed"
            /\ err' = NoItems
            /\ UNCHANGED pipeline
       ELSE /\ pc' = "spawning"
            /\ total' = Len(scan_items)
            /\ sem' = concurrency                \* Semaphore::new(concurrency)
            /\ chan' = <<>>                      \* mpsc::channel(channel_size)
            /\ senders' = 1                      \* tx
            /\ next' = 1
            /\ task' = [i \in Tasks |-> "unspawned"]
            /\ outcome' = [i \in Tasks |-> ""]
            /\ open' = [i \in Tasks |-> FALSE]
            /\ UNCHANGED <<err, received>>
    /\ UNCHANGED <<inputs, fingerprinting, scan_items, budget>>

\* One iteration of spawn's loop: clone the handles, tokio::spawn the task.
SpawnTask ==
    /\ pc = "spawning"
    /\ next <= Len(scan_items)
    /\ senders' = senders + 1                    \* tx.clone()
    /\ task' = [task EXCEPT ![next] = "acquire"]
    /\ next' = next + 1
    /\ UNCHANGED <<pc, inputs, fingerprinting, scan_items, budget, err, total, sem, chan,
                   outcome, open, received>>

\* After the loop: drop(tx); Ok(Scanner { total, rx }).
SpawnReturn ==
    /\ pc = "spawning"
    /\ next > Len(scan_items)
    /\ senders' = senders - 1
    /\ pc' = "recv"
    /\ UNCHANGED <<inputs, fingerprinting, scan_items, budget, err, total, sem, chan, next,
                   task, outcome, open, received>>

\* Variant: the task does not wait for a permit.
AcquireNoLimit(i) ==
    /\ task[i] = "acquire"
    /\ sem' = sem - 1
    /\ task' = [task EXCEPT ![i] = "connect"]
    /\ UNCHANGED <<pc, inputs, fingerprinting, scan_items, budget, err, total, chan, senders,
                   next, outcome, open, received>>

\* let _permit = sem.acquire().await.unwrap();
Acquire(i) ==
    /\ task[i] = "acquire"
    /\ sem > 0
    /\ sem' = sem - 1
    /\ task' = [task EXCEPT ![i] = "connect"]
    /\ UNCHANGED <<pc, inputs, fingerprinting, scan_items, budget, err, total, chan, senders,
                   next, outcome, open, received>>

\* Variant: the permit is dropped as soon as the connect attempt is over.
ConnectThenRelease(i) ==
    /\ task[i] = "connect"
    /\ \E o \in ConnectOutcomes :
          /\ outcome' = [outcome EXCEPT ![i] = o]
          /\ open' = [open EXCEPT ![i] = scan_one(o)]
    /\ sem' = sem + 1
    /\ task' = [task EXCEPT ![i] = "send"]
    /\ UNCHANGED <<pc, inputs, fingerprinting, scan_items, budget, err, total, chan,
                   senders, next, received>>

\* let open = scan_one(target, port).await;
Connect(i) ==
    /\ task[i] = "connect"
    /\ \E o \in ConnectOutcomes :
          /\ outcome' = [outcome EXCEPT ![i] = o]
          /\ open' = [open EXCEPT ![i] = scan_one(o)]
    /\ task' = [task EXCEPT ![i] = "send"]
    /\ UNCHANGED <<pc, inputs, fingerprinting, scan_items, budget, err, total, sem, chan,
                   senders, next, received>>

\* Variant: try_send, the result is dropped when the channel is full.
SendLossy(i) ==
    /\ task[i] = "send"
    /\ chan' = IF Len(chan) < channel_size
               THEN Append(chan, <<scan_items[i][1], scan_items[i][2], open[i]>>)
               ELSE chan
    /\ task' = [task EXCEPT ![i] = "drop_permit"]
    /\ UNCHANGED <<pc, inputs, fingerprinting, scan_items, budget, err, total, sem, senders,
                   next, outcome, open, received>>

\* Variant: an unbounded channel, send never waits.
SendUnbounded(i) ==
    /\ task[i] = "send"
    /\ chan' = Append(chan, <<scan_items[i][1], scan_items[i][2], open[i]>>)
    /\ task' = [task EXCEPT ![i] = "drop_permit"]
    /\ UNCHANGED <<pc, inputs, fingerprinting, scan_items, budget, err, total, sem, senders,
                   next, outcome, open, received>>

\* Variant: send keeps waiting for room although the Receiver is gone.
SendToClosed(i) ==
    /\ task[i] = "send"
    /\ Len(chan) < channel_size
    /\ chan' = Append(chan, <<scan_items[i][1], scan_items[i][2], open[i]>>)
    /\ task' = [task EXCEPT ![i] = "drop_permit"]
    /\ UNCHANGED <<pc, inputs, fingerprinting, scan_items, budget, err, total, sem, senders,
                   next, outcome, open, received>>

\* let _ = tx.send((target, port, open)).await;
\* send waits for room in the buffer; once the Receiver is dropped it returns
\* Err at once (a waiting send is woken with Err), which `let _ =` discards.
Send(i) ==
    /\ task[i] = "send"
    /\ pc /= "dropped" => Len(chan) < channel_size
    /\ chan' = IF pc = "dropped" THEN chan
               ELSE Append(chan, <<scan_items[i][1], scan_items[i][2], open[i]>>)
    /\ task' = [task EXCEPT ![i] = "drop_permit"]
    /\ UNCHANGED <<pc, inputs, fingerprinting, scan_items, budget, err, total, sem, senders,
                   next, outcome, open, received>>

\* Variant: the permit is forgotten instead of dropped.
DropPermitLeak(i) ==
    /\ task[i] = "drop_permit"
    /\ task' = [task EXCEPT ![i] = "exit"]
    /\ UNCHANGED <<pc, inputs, fingerprinting, scan_items, budget, err, total, sem, chan,
                   senders, next, outcome, open, received>>

\* Variant: the permit is given back twice.
DropPermitTwice(i) ==
    /\ task[i] = "drop_permit"
    /\ sem' = sem + 2
    /\ task' = [task EXCEPT ![i] = "exit"]
    /\ UNCHANGED <<pc, inputs, fingerprinting, scan_items, budget, err, total, chan, senders,
                   next, outcome, open, received>>

\* drop(_permit);
DropPermit(i) ==
    /\ task[i] = "drop_permit"
    /\ sem' = sem + 1
    /\ task' = [task EXCEPT ![i] = "exit"]
    /\ UNCHANGED <<pc, inputs, fingerprinting, scan_items, budget, err, total, chan, senders,
                   next, outcome, open, received>>

\* The task's future completes: its captured tx and sem clones are dropped.
Exit(i) ==
    /\ task[i] = "exit"
    /\ senders' = senders - 1
    /\ task' = [task EXCEPT ![i] = "done"]
    /\ UNCHANGED <<pc, inputs, fingerprinting, scan_items, budget, err, total, sem, chan,
                   next, outcome, open, received>>

\* while let Some(..) = scanner.rx.recv().await: a buffered result.
Recv ==
    /\ pc = "recv"
    /\ chan /= <<>>
    /\ received' = received (+) SetToBag({Head(chan)})
    /\ chan' = Tail(chan)
    /\ UNCHANGED <<pc, inputs, fingerprinting, scan_items, budget, err, total, sem, senders,
                   next, task, outcome, open>>

\* Variant: the loop ends on an empty buffer (try_recv).
RecvNoneOnEmpty ==
    /\ pc = "recv"
    /\ chan = <<>>
    /\ pc' = "done"
    /\ UNCHANGED <<inputs, fingerprinting, scan_items, budget, err, pipeline>>

\* rx.recv() returns None: the buffer is empty and no Sender is left.
RecvNone ==
    /\ pc = "recv"
    /\ chan = <<>>
    /\ senders = 0
    /\ pc' = "done"
    /\ UNCHANGED <<inputs, fingerprinting, scan_items, budget, err, pipeline>>

\* The steps of scan::spawn, of its tasks and of the caller's receive loop.
NextPipeline ==
    \/ SpawnEnter
    \/ SpawnTask
    \/ SpawnReturn
    \/ \E i \in DOMAIN task : Acquire(i)
    \/ \E i \in DOMAIN task : Connect(i)
    \/ \E i \in DOMAIN task : Send(i)
    \/ \E i \in DOMAIN task : DropPermit(i)
    \/ \E i \in DOMAIN task : Exit(i)
    \/ Recv
    \/ RecvNone

Next ==
    \/ RunProbe
    \/ Expand
    \/ ExpandTarget
    \/ NextPipeline

Spec == Init /\ [][Next]_vars

\* Every step of the task spawned for scan_items[i].
TaskStep(i) ==
    /\ i \in DOMAIN task
    /\ (Acquire(i) \/ Connect(i) \/ Send(i) \/ DropPermit(i) \/ Exit(i))

TaskIds == 1..(MaxItems + MaxProbeItems)

\* The runtime keeps polling every runnable task, spawn runs to its return
\* without suspending, and the caller's loop keeps calling rx.recv().
Fairness ==
    /\ WF_vars(SpawnEnter)
    /\ WF_vars(SpawnTask)
    /\ WF_vars(SpawnReturn)
    /\ WF_vars(Recv)
    /\ WF_vars(RecvNone)
    /\ \A i \in TaskIds : WF_vars(TaskStep(i))

\* scan::spawn called with one work sequence of each length up to MaxItems
\* (scheduling does not depend on the items' values).
FairSeqs ==
    {[i \in 1..k |-> ItemPool[((i - 1) % Len(ItemPool)) + 1]] : k \in 0..MaxItems}

InitFair ==
    /\ entry = "spawn"
    /\ pc = "spawn"
    /\ scan_items \in FairSeqs
    /\ concurrency \in 1..MaxConc
    /\ channel_size \in ChannelSizes
    /\ target = <<>> /\ start = NoPort /\ end = NoPort /\ cpus = 0
    /\ hosts = <<>> /\ ports = <<>>
    /\ NoPipeline
    /\ NoFingerprinting

FairSpec == InitFair /\ [][NextPipeline]_vars /\ Fairness

\* The caller drops the Scanner (and with it rx) while still receiving: the
\* channel is closed and the results still buffered are discarded.
DropRx ==
    /\ pc = "recv"
    /\ pc' = "dropped"
    /\ chan' = <<>>
    /\ UNCHANGED <<inputs, fingerprinting, scan_items, budget, err, total, sem, senders,
                   next, task, outcome, open, received>>

NextDrop == NextPipeline \/ DropRx

\* scan::spawn called with more items than permits and buffer room together,
\* so that tasks wait both for a permit and for room when rx is dropped.
InitDrop ==
    /\ entry = "spawn"
    /\ pc = "spawn"
    /\ scan_items \in {q \in FairSeqs : Len(q) >= MaxItems - 1}
    /\ concurrency \in 1..MaxConc
    /\ channel_size = 1
    /\ target = <<>> /\ start = NoPort /\ end = NoPort /\ cpus = 0
    /\ hosts = <<>> /\ ports = <<>>
    /\ NoPipeline
    /\ NoFingerprinting

\* The pipeline with a caller that may stop receiving at any point.
FairDropSpec == InitDrop /\ [][NextDrop]_vars /\ Fairness

----------------------------------------------------------------------------
(* The budget functions and fingerprint::ttl on their own *)

MaxCpus == 80            \* CPU counts 1..MaxCpus
LargeCpuCounts == {1000, 65536}
MaxConcurrencyArg == 4200  \* compute_channel_size arguments 0..MaxConcurrencyArg
MaxTtlText == 300        \* numbers 0..MaxTtlText printed after "ttl="

\* "64 bytes from <ip>: icmp_seq=1 ttl=<v> time=<...> ms"
PingReply(v) == <<PlainSegment, TtlSegment(v), PlainSegment>>

PingOutcomes ==
    {[kind |-> "spawn_error"]}
    \cup {[kind |-> "exited", success |-> FALSE, stdout |-> PingReply(64)]}
    \cup {[kind |-> "exited", success |-> TRUE, stdout |-> q] :
            q \in {PingReply(v) : v \in 0..MaxTtlText}
                 \cup {<<>>, <<PlainSegment>>, PingReply(NotANumber),
                        <<TtlSegment(NotANumber), TtlSegment(48)>>,
                        <<TtlSegment(MaxTtlText), TtlSegment(128)>>,
                        <<TtlSegment(200), TtlSegment(64)>>}}

NoInputs ==
    /\ target = <<>> /\ start = NoPort /\ end = NoPort
    /\ hosts = <<>> /\ ports = <<>>
    /\ scan_items = <<>>
    /\ err = ""

InitBudget ==
    /\ entry = "budget" /\ pc = entry
    /\ cpus \in (1..MaxCpus) \cup LargeCpuCounts
    /\ concurrency = 1 /\ channel_size = 1
    /\ NoInputs /\ NoPipeline /\ NoFingerprinting

InitChannelSize ==
    /\ entry = "compute_channel_size" /\ pc = entry
    /\ cpus = 1
    /\ concurrency \in 0..MaxConcurrencyArg
    /\ channel_size = 1
    /\ NoInputs /\ NoPipeline /\ NoFingerprinting

InitTtl ==
    /\ entry = "ttl" /\ pc = entry
    /\ cpus = 1 /\ concurrency = 1 /\ channel_size = 1
    /\ NoInputs /\ NoPipeline
    /\ ping \in PingOutcomes
    /\ ttl_guess = None
    /\ stream = <<>> /\ recv_pos = 0 /\ open_hosts = <<>>
    /\ fp_results = <<>> /\ probes = <<>>

InitFunctions == InitBudget \/ InitChannelSize \/ InitTtl

\* let concurrency = limits::compute_concurrency();
\* let channel_size = limits::compute_channel_size(concurrency);
ComputeBudget ==
    /\ pc = "budget"
    /\ concurrency' = compute_concurrency(cpus)
    /\ channel_size' = compute_channel_size(concurrency')
    /\ pc' = "returned"
    /\ UNCHANGED <<inputs, fingerprinting, scan_items, err, pipeline>>

ComputeChannelSize ==
    /\ pc = "compute_channel_size"
    /\ channel_size' = compute_channel_size(concurrency)
    /\ pc' = "returned"
    /\ UNCHANGED <<inputs, fingerprinting, scan_items, concurrency, err, pipeline>>

Ttl ==
    /\ pc = "ttl"
    /\ ttl_guess' = ttl(ping)
    /\ pc' = "returned"
    /\ UNCHANGED <<inputs, ping, stream, recv_pos, open_hosts, fp_results, probes,
                   scan_items, budget, err, pipeline>>

NextFunctions == ComputeBudget \/ ComputeChannelSize \/ Ttl

SpecFunctions == InitFunctions /\ [][NextFunctions]_vars

----------------------------------------------------------------------------
(* fingerprint.rs: services, http_banner, ssh_banner, host                 *)
(* How a service connection goes is an input: the connect fails or times   *)
(* out, the write fails, the read fails, the peer closes without a byte,   *)
(* the bytes read are only whitespace, or a banner line is read.           *)

HttpPorts == {80, 8000, 8080, 8443, 443}
SshPort == 22

HttpOutcomes == {"no_connect", "no_write", "no_read", "eof", "blank", "banner"}
SshOutcomes == {"no_connect", "no_read", "eof", "blank", "banner"}

\* "HTTP:{port} {status_line}": the status line of a blank reply is "".
http_banner(port, o) ==
    IF o \in {"no_connect", "no_write", "no_read", "eof"} THEN None
    ELSE Some([proto |-> "HTTP", port |-> port,
               text |-> IF o = "blank" THEN "" ELSE "line"])

\* "SSH:{port} {banner}": a reply that trims to nothing gives None.
ssh_banner(port, o) ==
    IF o \in {"no_connect", "no_read", "eof", "blank"} THEN None
    ELSE Some([proto |-> "SSH", port |-> port, text |-> "line"])

Ping(ip) == [kind |-> "ping", ip |-> ip, port |-> 0]
HttpProbe(ip, port) == [kind |-> "http", ip |-> ip, port |-> port]
SshProbe(ip, port) == [kind |-> "ssh", ip |-> ip, port |-> port]

\* for &port in open_ports { match port {...}; if let Some(banner) ... push }
\* acc.results is the Vec built so far, acc.probes the connections opened.
RECURSIVE ServicesLoop(_, _, _, _, _)
ServicesLoop(acc, ip, open_ports, resp, i) ==
    IF i > Len(open_ports) THEN acc
    ELSE LET port == open_ports[i]
             banner == IF port \in HttpPorts THEN http_banner(port, resp[port])
                       ELSE IF port = SshPort THEN ssh_banner(port, resp[port])
                       ELSE None
             probe == IF port \in HttpPorts THEN <<HttpProbe(ip, port)>>
                      ELSE IF port = SshPort THEN <<SshProbe(ip, port)>>
                      ELSE <<>>
         IN ServicesLoop([results |-> IF banner.ok THEN Append(acc.results, banner.val)
                                      ELSE acc.results,
                          probes |-> acc.probes \o probe],
                         ip, open_ports, resp, i + 1)

services(ip, open_ports, resp) ==
    ServicesLoop([results |-> <<>>, probes |-> <<>>], ip, open_ports, resp, 1)

\* fingerprint::host: ttl(ip) first, then services(ip, open_ports)
host(ip, open_ports, p, resp) ==
    LET s == services(ip, open_ports, resp)
    IN [fp |-> [ttl_guess |-> ttl(p), services |-> s.results],
        probes |-> <<Ping(ip)>> \o s.probes]

----------------------------------------------------------------------------
(* main.rs: run_default from its receive loop on                           *)

MaxResults == 3   \* longest result stream handed to the receive loop

StreamPorts == {22, 23, 80}
StreamResults == {<<h, p, o>> : h \in HostPool, p \in StreamPorts, o \in BOOLEAN}
Streams == SeqsUpTo(StreamResults, MaxResults)

DiscoveryPings ==
    {[kind |-> "spawn_error"],
     [kind |-> "exited", success |-> FALSE, stdout |-> <<>>],
     [kind |-> "exited", success |-> TRUE, stdout |-> PingReply(64)]}

\* the outcomes of the connections services may open to these ports
Responses(open_ports) ==
    {f \in [Range(open_ports) -> HttpOutcomes] :
        \A port \in DOMAIN f : port = SshPort => f[port] \in SshOutcomes}

\* Vec::dedup: drops every element equal to the one before it
RECURSIVE Dedup(_)
Dedup(q) ==
    IF Len(q) <= 1 THEN q
    ELSE LET rest == Dedup(Tail(q))
         IN IF Head(q) = Head(rest) THEN rest ELSE <<Head(q)>> \o rest

\* Ord of Ipv4Addr: by octets, most significant first
AddrLess(a, b) ==
    \E i \in 1..4 : a[i] < b[i] /\ \A j \in 1..(i - 1) : a[j] = b[j]

\* the k-th key of the BTreeMap built from open_hosts
KeyAt(m, k) ==
    CHOOSE ip \in DOMAIN m :
        Cardinality({other \in DOMAIN m : AddrLess(other, ip)}) = k - 1

InitDiscover ==
    /\ entry = "run_default" /\ pc = "collect"
    /\ cpus = 1 /\ concurrency = 1 /\ channel_size = 1
    /\ NoInputs /\ NoPipeline
    /\ ping = NoPing /\ ttl_guess = None
    /\ stream \in Streams
    /\ recv_pos = 0
    /\ open_hosts = <<>>
    /\ fp_results = <<>>
    /\ probes = <<>>

\* open_hosts.entry(ip).or_default().push(port)
PushOpen(m, ip, port) ==
    [h \in DOMAIN m \cup {ip} |->
        IF h = ip THEN (IF ip \in DOMAIN m THEN Append(m[ip], port) ELSE <<port>>)
        ELSE m[h]]

\* the receive loop of run_default taking closed results as well
CollectAll ==
    /\ pc = "collect"
    /\ recv_pos < Len(stream)
    /\ LET r == stream[recv_pos + 1]
       IN open_hosts' = PushOpen(open_hosts, r[1], r[2])
    /\ recv_pos' = recv_pos + 1
    /\ UNCHANGED <<pc, inputs, ping, ttl_guess, stream, fp_results, probes,
                   scan_items, budget, err, pipeline>>

\* while let Some((ip, port, open)) = scanner.rx.recv().await { if open {...} }
Collect ==
    /\ pc = "collect"
    /\ recv_pos < Len(stream)
    /\ LET r == stream[recv_pos + 1]
       IN open_hosts' = IF r[3] THEN PushOpen(open_hosts, r[1], r[2]) ELSE open_hosts
    /\ recv_pos' = recv_pos + 1
    /\ UNCHANGED <<pc, inputs, ping, ttl_guess, stream, fp_results, probes,
                   scan_items, budget, err, pipeline>>

\* recv() returns None; sort_unstable and dedup each port list; collect into
\* the BTreeMap; return early when it is empty.
CollectEnd ==
    /\ pc = "collect"
    /\ recv_pos = Len(stream)
    /\ open_hosts' = [h \in DOMAIN open_hosts |-> Dedup(SortPorts(open_hosts[h]))]
    /\ pc' = IF DOMAIN open_hosts = {} THEN "no_live_hosts" ELSE "fingerprint"
    /\ UNCHANGED <<inputs, ping, ttl_guess, stream, recv_pos, fp_results, probes,
                   scan_items, budget, err, pipeline>>

\* for (ip, ports) in hosts { let fp = fingerprint::host(ip, &ports).await;
\*                            results.push((ip, ports, fp)); }
FingerprintHost ==
    /\ pc = "fingerprint"
    /\ Len(fp_results) < Cardinality(DOMAIN open_hosts)
    /\ LET ip == KeyAt(open_hosts, Len(fp_results) + 1)
           open_ports == open_hosts[ip]
       IN \E p \in DiscoveryPings, resp \in Responses(open_ports) :
            LET r == host(ip, open_ports, p, resp)
            IN /\ fp_results' = Append(fp_results,
                                       [ip |-> ip, ports |-> open_ports, fp |-> r.fp])
               /\ probes' = probes \o r.probes
    /\ UNCHANGED <<pc, inputs, ping, ttl_guess, stream, recv_pos, open_hosts,
                   scan_items, budget, err, pipeline>>

Report ==
    /\ pc = "fingerprint"
    /\ Len(fp_results) = Cardinality(DOMAIN open_hosts)
    /\ pc' = "reported"
    /\ UNCHANGED <<inputs, fingerprinting, scan_items, budget, err, pipeline>>

NextDiscover == Collect \/ CollectEnd \/ FingerprintHost \/ Report

SpecDiscover == InitDiscover /\ [][NextDiscover]_vars

----------------------------------------------------------------------------
(* Notions the properties are stated in *)

Count(q, v) == Cardinality({i \in DOMAIN q : q[i] = v})
IsAscending(q) == \A i \in DOMAIN q : \A j \in DOMAIN q : i < j => q[i] <= q[j]

ItemOf(r) == <<r[1], r[2]>>
DeliveredFor(item) ==
    CopiesIn(<<item[1], item[2], TRUE>>, received)
        + CopiesIn(<<item[1], item[2], FALSE>>, received)

PipelineCreated == pc \in {"spawning", "recv", "done"}
Holding(i) == task[i] \in {"connect", "send", "drop_permit"}
Published(i) == task[i] \in {"drop_permit", "exit", "done"}
Connected(i) == task[i] \in {"send", "drop_permit", "exit", "done"}
EndOfStream == pc = "done"

\* The result task i has to publish, read off its connect outcome.
ExpectedResult(i) ==
    <<scan_items[i][1], scan_items[i][2], outcome[i] = "connected">>

\* Position of (host h, port p) in a host-major expansion.
Slot(h, p, nports) == (h - 1) * nports + p

----------------------------------------------------------------------------
(* Properties *)

\* C1: a consumer that receives until end-of-stream gets exactly one result
\* per submitted item (none missing, none twice, none for an item that was
\* not submitted), and as many results as Scanner.total advertises.
C1_ExactlyOnePerItem ==
    PipelineCreated =>
        /\ \A r \in BagToSet(received) : ItemOf(r) \in Range(scan_items)
        /\ \A item \in Range(scan_items) :
              DeliveredFor(item) <= Count(scan_items, item)
        /\ EndOfStream =>
              /\ \A item \in Range(scan_items) :
                    DeliveredFor(item) = Count(scan_items, item)
              /\ BagCardinality(received) = total
              /\ total = Len(scan_items)

C1_Witness ==
    /\ EndOfStream
    /\ Len(scan_items) >= 3
    /\ Len(scan_items) > channel_size
    /\ \E i \in DOMAIN scan_items : Count(scan_items, scan_items[i]) >= 2

\* C2: end-of-stream is observed only after every dispatched task has
\* published its result and every published result has been received.
C2_EndOfStreamAfterAll ==
    EndOfStream =>
        /\ next > Len(scan_items)
        /\ \A i \in DOMAIN task : Published(i)
        /\ chan = <<>>
        /\ BagCardinality(received) = Len(scan_items)

C2_Witness ==
    /\ EndOfStream
    /\ Len(scan_items) > channel_size
    /\ Len(scan_items) > concurrency

\* C3: the tasks that hold an admission slot (acquired, not yet released)
\* are never more than max_in_flight.
C3_AtMostMaxInFlight ==
    PipelineCreated =>
        /\ Cardinality({i \in DOMAIN task : Holding(i)}) <= concurrency
        /\ Cardinality({i \in DOMAIN task : task[i] = "connect"}) <= concurrency
        /\ sem >= 0

C3_Witness ==
    /\ PipelineCreated
    /\ concurrency >= 2
    /\ Cardinality({i \in DOMAIN task : task[i] = "connect"}) = concurrency
    /\ \E i \in DOMAIN task : task[i] = "acquire"

\* C4: under fair scheduling and a consumer that keeps receiving, a started
\* scan always runs to the end: every task acquires a slot, connects,
\* publishes and finishes, and the consumer sees end-of-stream.
C4_NoDeadlock ==
    PipelineCreated ~>
        (EndOfStream /\ \A i \in DOMAIN task : task[i] = "done")

C4_Witness ==
    /\ EndOfStream
    /\ Len(scan_items) > channel_size
    /\ Len(scan_items) > concurrency
    /\ concurrency > channel_size
    /\ \A i \in DOMAIN task : task[i] = "done"

\* C5: a result is open exactly when the connect succeeded within the
\* deadline; refused, failed and timed-out connects each yield one closed
\* result, none becomes an error, and the other results are all delivered.
C5_OpenIffConnected ==
    PipelineCreated =>
        /\ \A i \in DOMAIN task :
              Connected(i) => (open[i] <=> outcome[i] = "connected")
        /\ err = ""
        /\ EndOfStream =>
              \A i \in DOMAIN task :
                  CopiesIn(ExpectedResult(i), received)
                      = Cardinality({j \in DOMAIN task :
                                        ExpectedResult(j) = ExpectedResult(i)})

C5_Witness ==
    /\ EndOfStream
    /\ \E i \in DOMAIN task : outcome[i] = "elapsed"
    /\ \E i \in DOMAIN task : outcome[i] = "refused"
    /\ \E i \in DOMAIN task : outcome[i] = "connected"
    /\ BagCardinality(received) = Len(scan_items)

\* C6: spawn on an empty work sequence returns the "No items to scan" error
\* with no limiter, no channel and no task created, and no connect attempted.
C6_EmptyFailsFast ==
    /\ PipelineCreated => Len(scan_items) > 0
    /\ err = NoItems =>
          /\ pc = "failed"
          /\ Len(scan_items) = 0
          /\ sem = -1 /\ senders = -1 /\ total = -1
          /\ task = <<>> /\ outcome = <<>>
          /\ chan = <<>> /\ received = EmptyBag

C6_Witness ==
    /\ entry = "spawn"
    /\ pc = "failed"
    /\ err = NoItems

\* C7: build_target_scan_items takes the target as an IPv4 address, else as
\* an IPv4 CIDR, else returns the unsupported-target error; in run_probe that
\* error ends the flow with no limiter, channel or task created.
C7_UnsupportedTargetStopsScan ==
    (entry \in {"run_probe", "build_target_scan_items"} /\ pc /= entry
        /\ pc /= "exited") =>
        IF ParseIpv4Addr(target).ok
        THEN /\ err = ""
             /\ \A it \in Range(scan_items) : it[1] = ParseIpv4Addr(target).val
        ELSE IF ParseIpv4Cidr(target).ok
        THEN /\ err = ""
             /\ \A it \in Range(scan_items) :
                   it[1] \in Range(CidrIter(ParseIpv4Cidr(target).val))
        ELSE /\ err = UnsupportedTarget
             /\ pc = "failed"
             /\ scan_items = <<>>
             /\ sem = -1 /\ senders = -1 /\ total = -1
             /\ task = <<>> /\ outcome = <<>>
             /\ chan = <<>> /\ received = EmptyBag

C7_Witness ==
    /\ entry = "run_probe"
    /\ pc = "failed"
    /\ err = UnsupportedTarget
    /\ RFindSlash(target) > 0

\* C8 as stated: the expansion has |hosts| x |ports| items, is the cartesian
\* product in host-major order, and within each host the ports ascend.
C8_AsStated ==
    (entry = "build_scan_items" /\ pc = "built") =>
        /\ Len(scan_items) = Len(hosts) * Len(ports)
        /\ \A h \in DOMAIN hosts : \A p \in DOMAIN ports :
              scan_items[Slot(h, p, Len(ports))] = <<hosts[h], ports[p]>>
        /\ \A h \in DOMAIN hosts : \A p \in DOMAIN ports : \A q \in DOMAIN ports :
              p < q => scan_items[Slot(h, p, Len(ports))][2]
                          <= scan_items[Slot(h, q, Len(ports))][2]

\* C8 (amended): the expansion has |hosts| x |ports| items and is the
\* cartesian product in host-major order with each host's ports in the order
\* supplied; within each host the ports ascend whenever the supplied port
\* sequence ascends.
C8_HostMajorProduct ==
    (entry = "build_scan_items" /\ pc = "built") =>
        /\ Len(scan_items) = Len(hosts) * Len(ports)
        /\ \A h \in DOMAIN hosts : \A p \in DOMAIN ports :
              scan_items[Slot(h, p, Len(ports))] = <<hosts[h], ports[p]>>
        /\ IsAscending(ports) =>
              \A h \in DOMAIN hosts : \A p \in DOMAIN ports : \A q \in DOMAIN ports :
                  p < q => scan_items[Slot(h, p, Len(ports))][2]
                              <= scan_items[Slot(h, q, Len(ports))][2]

C8_Witness ==
    /\ entry = "build_scan_items"
    /\ pc = "built"
    /\ Len(hosts) = 2 /\ hosts[1] /= hosts[2]
    /\ Len(ports) >= 2 /\ IsAscending(ports) /\ ports[1] /= ports[2]
    /\ Len(scan_items) = 2 * Len(ports)

\* C9: for every host the ports of its items are the supplied port sequence,
\* in the supplied order, the same for each host.
C9_PortOrderPreserved ==
    (entry = "build_scan_items" /\ pc = "built") =>
        \A h \in DOMAIN hosts :
            /\ Len(scan_items) >= h * Len(ports)
            /\ [p \in DOMAIN ports |-> scan_items[Slot(h, p, Len(ports))][2]] = ports

C9_Witness ==
    /\ entry = "build_scan_items"
    /\ pc = "built"
    /\ Len(hosts) = 2
    /\ ~IsAscending(ports)
    /\ Len(scan_items) = 2 * Len(ports)

\* C10: a CIDR target expands to the usable host addresses of the block only
\* (network and broadcast address left out), in address order, each crossed
\* with the port range; a /30 with one port gives 2 items.
C10_UsableHostsOnly ==
    (entry = "build_target_scan_items" /\ pc = "built"
        /\ ~ParseIpv4Addr(target).ok /\ ParseIpv4Cidr(target).ok
        /\ ParseIpv4Cidr(target).val.len <= 30) =>
        LET c == ParseIpv4Cidr(target).val
            usable == [k \in 1..(Pow2(32 - c.len) - 2) |-> AddOffset(c.addr, k)]
            nports == IF start > end THEN 0 ELSE end - start + 1
        IN /\ Len(scan_items) = Len(usable) * nports
           /\ \A h \in DOMAIN usable : \A p \in 1..nports :
                 scan_items[Slot(h, p, nports)] = <<usable[h], start + p - 1>>

\* C11 as stated: the Target Expander never returns an empty work sequence
\* to its caller; an empty expansion is reported as the empty-target error.
C11_AsStated ==
    (entry \in {"build_scan_items", "build_target_scan_items"} /\ pc = "built") =>
        scan_items /= <<>>

\* C11 (amended): when the expansion is empty (no host, no port, or
\* start > end) the Target Expander returns the empty sequence and no error;
\* the only error it returns is the unsupported-target one, and "No items to
\* scan" is returned by scan::spawn alone, on an empty work sequence.
C11_EmptyReturnedToCaller ==
    /\ (entry = "build_scan_items" /\ pc /= entry) =>
          /\ pc = "built" /\ err = ""
          /\ (scan_items = <<>>) <=> (hosts = <<>> \/ ports = <<>>)
    /\ (entry = "build_target_scan_items" /\ pc /= entry) =>
          /\ err \in {"", UnsupportedTarget}
          /\ pc = "built" => ((scan_items = <<>>) <=> (start > end))
    /\ err = NoItems =>
          /\ entry \in {"spawn", "run_probe"}
          /\ pc = "failed" /\ scan_items = <<>> /\ total = -1

C11_Witness ==
    /\ entry = "build_target_scan_items"
    /\ pc = "built"
    /\ start > end
    /\ scan_items = <<>>
    /\ err = ""

\* C12: for every CPU count >= 1, the budget run_default and run_probe compute
\* (max_in_flight = compute_concurrency(), channel_capacity =
\* compute_channel_size(max_in_flight)) has channel_capacity >= max_in_flight
\* and both values positive.
C12_ChannelHoldsFullBatch ==
    (entry = "budget" /\ pc = "returned") =>
        /\ concurrency > 0
        /\ channel_size > 0
        /\ channel_size >= concurrency

C12_Witness ==
    /\ entry = "budget" /\ pc = "returned"
    /\ cpus = 1000
    /\ concurrency = 4096
    /\ channel_size = 16384

\* C13: compute_concurrency on K CPUs is min(64*K, 4096) and
\* compute_channel_size(X) is 4*X held within [256, 16384]; K = 1 gives 64 and
\* 256, K = 64, 65 and 1000 give 4096 and 16384.
C13_BudgetFormulas ==
    /\ (entry = "budget" /\ pc = "returned") =>
          /\ cpus < 64 => concurrency = 64 * cpus
          /\ cpus >= 64 => concurrency = 4096
          /\ cpus = 1 => (concurrency = 64 /\ channel_size = 256)
          /\ cpus \in {64, 65, 1000} => (concurrency = 4096 /\ channel_size = 16384)
    /\ (entry = "compute_channel_size" /\ pc = "returned") =>
          /\ concurrency < 64 => channel_size = 256
          /\ (concurrency >= 64 /\ concurrency <= 4096) => channel_size = 4 * concurrency
          /\ concurrency > 4096 => channel_size = 16384

C13_Witness ==
    /\ entry = "compute_channel_size" /\ pc = "returned"
    /\ concurrency = 100
    /\ channel_size = 400

\* C14: for a reply TTL t in 0..255, fingerprint::ttl takes base 64 for t in
\* [1,64], base 128 for t in [65,128] and base 255 otherwise, the hop distance
\* is max(0, base - t), and the hint carries the hop count only when it is
\* not zero (64 -> 0 hops, 48 -> 16, 128 -> 0, 200 -> 55).
C14_TtlMapping ==
    (entry = "ttl" /\ pc = "returned" /\ ping.kind = "exited" /\ ping.success) =>
        /\ \A t \in 0..255 :
              ping.stdout = PingReply(t) =>
                LET base == IF t >= 1 /\ t <= 64 THEN 64
                            ELSE IF t >= 65 /\ t <= 128 THEN 128 ELSE 255
                    hops == IF base - t > 0 THEN base - t ELSE 0
                IN /\ ttl_guess.ok
                   /\ ttl_guess.val.ttl = t
                   /\ hops = 0 => Len(ttl_guess.val.hint) = 1
                   /\ hops /= 0 => (Len(ttl_guess.val.hint) = 2
                                    /\ ttl_guess.val.hint[2] = hops)
        /\ ping.stdout = PingReply(64) => ttl_guess.val.hint = <<Linux>>
        /\ ping.stdout = PingReply(48) => ttl_guess.val.hint = <<Linux, 16>>
        /\ ping.stdout = PingReply(128) => ttl_guess.val.hint = <<Windows>>
        /\ ping.stdout = PingReply(200) => ttl_guess.val.hint = <<NetworkGear, 55>>

C14_Witness ==
    /\ entry = "ttl" /\ pc = "returned"
    /\ ping.kind = "exited" /\ ping.success
    /\ ping.stdout = PingReply(200)
    /\ ttl_guess = Some([ttl |-> 200, hint |-> <<NetworkGear, 55>>])

\* C15: within each host's fingerprint every HTTP-type probe is issued, and
\* every HTTP banner listed, before the SSH probe and the SSH banner.
C15_HttpBeforeSsh ==
    entry = "run_default" =>
        /\ \A k \in DOMAIN fp_results :
              LET sv == fp_results[k].fp.services
              IN \A i, j \in DOMAIN sv :
                    (sv[i].proto = "SSH" /\ sv[j].proto = "HTTP") => j < i
        /\ \A i, j \in DOMAIN probes :
              (probes[i].kind = "ssh" /\ probes[j].kind = "http"
                 /\ probes[i].ip = probes[j].ip) => j < i

\* C16: in the discovery flow fingerprint::host runs exactly once for each
\* host with at least one open result and never for another host; a service
\* connection is opened only to a port reported open for that host, as an
\* HTTP probe for 80, 443, 8000, 8080, 8443 and as an SSH probe for 22.
C16_FingerprintOnlyOpen ==
    entry = "run_default" =>
        LET OpenResult(h, p) == \E i \in DOMAIN stream : stream[i] = <<h, p, TRUE>>
            Live(h) == \E i \in DOMAIN stream : stream[i][1] = h /\ stream[i][3]
            Invocations(h) == Cardinality({k \in DOMAIN fp_results : fp_results[k].ip = h})
            Pings(h) == Cardinality({i \in DOMAIN probes :
                                        probes[i].kind = "ping" /\ probes[i].ip = h})
        IN /\ \A h \in HostPool :
                 /\ Invocations(h) <= 1
                 /\ Pings(h) = Invocations(h)
                 /\ ~Live(h) => Invocations(h) = 0
                 /\ (pc = "reported" /\ Live(h)) => Invocations(h) = 1
           /\ pc = "no_live_hosts" => \A h \in HostPool : ~Live(h)
           /\ \A i \in DOMAIN probes :
                 \/ probes[i].kind = "ping"
                 \/ /\ probes[i].kind = "http"
                    /\ probes[i].port \in {80, 443, 8000, 8080, 8443}
                    /\ OpenResult(probes[i].ip, probes[i].port)
                 \/ /\ probes[i].kind = "ssh"
                    /\ probes[i].port = 22
                    /\ OpenResult(probes[i].ip, probes[i].port)
           /\ \A i, j \in DOMAIN probes :
                 (probes[i] = probes[j] /\ probes[i].kind /= "ping") => i = j

C16_Witness ==
    /\ entry = "run_default" /\ pc = "reported"
    /\ stream = << <<H2, 23, TRUE>>, <<H1, 80, FALSE>>, <<H2, 80, TRUE>> >>
    /\ Len(fp_results) = 1
    /\ fp_results[1].ip = H2
    /\ probes = <<Ping(H2), HttpProbe(H2, 80)>>

\* C17 as stated: the slot is released before the send, so only a task in its
\* connect attempt holds an admission slot.
C17_AsStated ==
    PipelineCreated =>
        sem = concurrency - Cardinality({i \in DOMAIN task : task[i] = "connect"})

\* C17 (amended): each scan task performs its steps in the order acquire one
\* admission slot, attempt the connect, publish the result to the channel,
\* release the slot; the send leaves the limiter untouched, the slot goes back
\* only in the step after it.
C17_AcquireConnectSendRelease ==
    [][\A i \in DOMAIN task \cap DOMAIN task' :
          task'[i] /= task[i] =>
              \/ /\ task[i] = "unspawned" /\ task'[i] = "acquire"
                 /\ sem' = sem /\ chan' = chan
              \/ /\ task[i] = "acquire" /\ task'[i] = "connect"
                 /\ sem' = sem - 1 /\ chan' = chan
              \/ /\ task[i] = "connect" /\ task'[i] = "send"
                 /\ sem' = sem /\ chan' = chan
              \/ /\ task[i] = "send" /\ task'[i] = "drop_permit"
                 /\ sem' = sem /\ chan' = Append(chan, ExpectedResult(i))
              \/ /\ task[i] = "drop_permit" /\ task'[i] = "exit"
                 /\ sem' = sem + 1 /\ chan' = chan
              \/ /\ task[i] = "exit" /\ task'[i] = "done"
                 /\ sem' = sem /\ chan' = chan]_vars

\* A task suspended on a full channel while no slot is left in the limiter.
C17_Witness ==
    /\ pc = "recv"
    /\ Len(chan) = channel_size
    /\ sem = 0
    /\ \E i \in DOMAIN task : task[i] = "send"
    /\ \E i \in DOMAIN task : task[i] = "acquire"

\* C18: the channel never buffers more than channel_capacity results, a task
\* publishing into a full channel stays suspended in its send, and every
\* computed result is in exactly one place: held by its task, buffered, or
\* delivered.
C18_BoundedNoLoss ==
    /\ [](PipelineCreated =>
            /\ Len(chan) <= channel_size
            /\ \A v \in {ExpectedResult(i) : i \in DOMAIN task}
                        \cup Range(chan) \cup BagToSet(received) :
                  Cardinality({i \in DOMAIN task : Published(i) /\ ExpectedResult(i) = v})
                      = Count(chan, v) + CopiesIn(v, received))
    /\ [][\A i \in DOMAIN task \cap DOMAIN task' :
            (task[i] = "send" /\ Len(chan) = channel_size) => task'[i] = "send"]_vars

C18_Witness ==
    /\ pc = "recv"
    /\ channel_size = 2
    /\ Len(chan) = channel_size
    /\ \E i \in DOMAIN task : task[i] = "send"
    /\ received = EmptyBag

\* C19: slots held by tasks plus slots available equal max_in_flight in every
\* state, all slots are available again when the stream has ended, and the
\* results computed but not yet delivered never exceed channel_capacity +
\* max_in_flight.
C19_SlotsConserved ==
    PipelineCreated =>
        /\ sem >= 0
        /\ Cardinality({i \in DOMAIN task : Holding(i)}) + sem = concurrency
        /\ EndOfStream => sem = concurrency
        /\ Cardinality({i \in DOMAIN task : task[i] = "send"}) + Len(chan)
              <= channel_size + concurrency

C19_Witness ==
    /\ pc = "recv"
    /\ concurrency = 2
    /\ sem = 0
    /\ Cardinality({i \in DOMAIN task : task[i] = "send"}) + Len(chan)
          = channel_size + concurrency

\* C20: once the consumer has dropped the receiver, every scan task still
\* runs to its end and every admission slot is given back.
C20_TasksFinishAfterDrop ==
    (pc = "dropped") ~>
        (/\ \A i \in DOMAIN task : task[i] = "done"
         /\ sem = concurrency
         /\ senders = 0)

\* The receiver was dropped with results undelivered, and all tasks are done.
C20_Witness ==
    /\ pc = "dropped"
    /\ \A i \in DOMAIN task : task[i] = "done"
    /\ sem = concurrency
    /\ BagCardinality(received) < total
    /\ total > channel_size + concurrency

============================================================================
